---- MODULE Spec2Model ----
(***************************************************************************)
(* Model of the raw-voter bulk loader of NCVotes and its Manifest Store:   *)
(*   src/src/etl/load_raw_voters.py   load_raw_voters, calculate_age_group,*)
(*                                    main                                 *)
(*   src/src/scraper/manifest.py      the Manifest Store                   *)
(*   src/src/email/notifications.py   send_update_email and its snapshot   *)
(*   src/run_pipeline.py              run_full_pipeline                    *)
(* The loader is a sequential program; one run is modelled step by step    *)
(* (pc), the file system, the manifest, the calendar and the database      *)
(* table raw.raw_voters are its environment.                               *)
(*   Spec          the loader on well-formed files                         *)
(*   SpecFiles     the loader on drifted layouts and malformed lines       *)
(*   SpecAge       calculate_age_group on its own                          *)
(*   SpecManifest  the Manifest Store, one call at a time                  *)
(*   SpecRace      two add_entry calls at the same time                    *)
(*   SpecNotify    the loader with a snapshot file the notifier can write  *)
(*   SpecPipeline  run_full_pipeline around one load                       *)
(***************************************************************************)
EXTENDS Integers, Sequences, FiniteSets, TLC

\* Longest source file (data rows) the environment may put on disk.
MaxRows == 2
\* Longest birth_year string fed to calculate_age_group in SpecAge.
MaxLen == 2
\* Longest manifest the add_entry calls of SpecManifest build.
MaxEntries == 3

VARIABLES
    manifest_file,   \* MANIFEST_PATH: [exists, readable, parses, entries]
    raw_file,        \* the extracted registration file under RAW_DATA_DIR, or Missing
    table,           \* raw.raw_voters: sequence of rows [by, age_group]
    row_gen,         \* history: per row of table, "this" run or a "prior" one
    year,            \* datetime.now().year
    chunksize,       \* argument of load_raw_voters
    pc,              \* position of the run inside load_raw_voters
    latest_entry,    \* local latest_entry
    total_rows,      \* local total_rows
    existing_rows,   \* local existing_rows
    rows_loaded,     \* local rows_loaded
    chunk_counter,   \* local chunk_counter
    pos,             \* rows of the file the reader has consumed
    chunk,           \* local chunk (rows, with age_group once computed)
    ret,             \* what the call gave its caller: none, True, False, raised
    ops,             \* history: reads, database statements and notifier call of this run
    failed,          \* history: the step of this run that raised, or none
    table0,          \* history: table when the run started
    notified,        \* history: what send_update_email did in this run, or none
    undisturbed,     \* history: no environment fault and no year change in this run
    prev,            \* history: outcome and batch size of the previous undisturbed run on this file and year
    log,             \* the counts and warnings this run has logged, in order
    exit_code,       \* exit status of the process running main(), -1 while it runs
    birth_year_arg,  \* SpecAge: argument of calculate_age_group
    age_group_out,   \* SpecAge: its result
    call,            \* SpecManifest: the last Manifest Store call and what it gave
    appended,        \* SpecManifest history: filenames add_entry has appended
    writers,         \* SpecRace: per concurrent add_entry call, its position and locals
    snapshot_file,   \* SNAPSHOT_FILE: [writable, content, total_voters]
    pipe_pc,         \* SpecPipeline: position inside run_full_pipeline
    pipe_steps,      \* SpecPipeline history: the steps completed and how each ended
    pipe_ret         \* SpecPipeline: what run_full_pipeline gave its caller

vars == <<manifest_file, raw_file, table, row_gen, year, chunksize, pc,
          latest_entry, total_rows, existing_rows, rows_loaded, chunk_counter,
          pos, chunk, ret, ops, failed, table0, notified, undisturbed, prev,
          log, exit_code, birth_year_arg, age_group_out, call, appended, writers,
          snapshot_file, pipe_pc, pipe_steps, pipe_ret>>

run_locals == <<latest_entry, total_rows, existing_rows, rows_loaded,
                chunk_counter, pos, chunk>>

age_vars == <<birth_year_arg, age_group_out>>

manifest_vars == <<call, appended, writers>>

pipeline_vars == <<pipe_pc, pipe_steps, pipe_ret>>

(***************************************************************************)
(* Values                                                                  *)
(***************************************************************************)
SeqsUpTo(S, n) == UNION {[1..k -> S] : k \in 0..n}

AsciiDigits == {"0", "1", "2", "3", "4", "5", "6", "7", "8", "9"}
\* Latin-1 characters for which str.isdigit() is True but int() raises.
SuperscriptDigits == {"sup2"}
OtherChars == {"-", " ", "a"}
Chars == AsciiDigits \cup SuperscriptDigits \cup OtherChars

\* A birth_year cell: NaN (empty field, dtype=str) or a string of characters.
Str(s) == [isna |-> FALSE, s |-> s]
NaN == [isna |-> TRUE, s |-> <<>>]
by1980 == Str(<<"1", "9", "8", "0">>)
by1975 == Str(<<"1", "9", "7", "5">>)

\* A line of the source file after the header: its birth_year, whether the
\* database accepts the row (fits = FALSE: a value violating a column
\* constraint) and whether the line is malformed (more fields than the header).
Row(by, fits) == [by |-> by, fits |-> fits, malformed |-> FALSE]
BadLine == [by |-> by1980, fits |-> TRUE, malformed |-> TRUE]
RowValues == {Row(by1980, TRUE), Row(by1975, TRUE), Row(by1980, FALSE)}

\* header "ok": the header line names birth_year; "no_birth_year": it does not.
Headers == {"ok", "no_birth_year"}
Missing == [present |-> FALSE, header |-> "ok", rows |-> <<>>]
File(h, rows) == [present |-> TRUE, header |-> h, rows |-> rows]
FileContents == {File(h, rows) : h \in Headers, rows \in SeqsUpTo(RowValues, MaxRows)}

\* SpecFiles: files whose layout drifted from the table's ("no_dist_2": a
\* column other than birth_year is gone, "extra_column": a column the table
\* does not have) and files holding malformed lines.
DriftHeaders == {"no_birth_year", "no_dist_2", "extra_column"}
VariantRowValues == {Row(by1980, TRUE), Row(by1975, TRUE), BadLine}
\* Files without a header line: every line is a data line (the sample file of
\* tests/etl_test.py), here with at least one line.
HeaderlessFiles ==
    {File("headerless", rows) :
        rows \in SeqsUpTo({Row(by1980, TRUE), Row(by1975, TRUE)}, MaxRows) \ {<<>>}}
VariantFiles ==
    {File(h, rows) : h \in {"ok"} \cup DriftHeaders,
                     rows \in SeqsUpTo(VariantRowValues, MaxRows)}
    \cup HeaderlessFiles

Years == {2025, 2026}
ChunkSizes == 1..MaxRows

DataFile == "ncvoter_Statewide.txt"
Entry(f, t, ts) == [filename |-> f, file_type |-> t, downloaded_at |-> ts]
None == Entry("", "", 0)
\* The manifest file: absent; holding a JSON list; holding text that is not
\* JSON; or present but not readable as text.
ManifestOf(entries) ==
    [exists |-> TRUE, readable |-> TRUE, parses |-> TRUE, entries |-> entries]
Absent == [exists |-> FALSE, readable |-> TRUE, parses |-> TRUE, entries |-> <<>>]
NotJson == [exists |-> TRUE, readable |-> TRUE, parses |-> FALSE, entries |-> <<>>]
Unreadable == [exists |-> TRUE, readable |-> FALSE, parses |-> FALSE, entries |-> <<>>]
InitManifests ==
    { Absent,
      ManifestOf(<<Entry("ncvoter_Statewide.zip", "registration_zip", 1)>>),
      ManifestOf(<<Entry("ncvoter_Statewide.zip", "registration_zip", 1),
                   Entry(DataFile, "registration_data", 1)>>),
      ManifestOf(<<Entry(DataFile, "registration_data", 1),
                   Entry("ncvoter_2024.txt", "registration_data", 2)>>) }

OldRow == [by |-> Str(<<"1", "9", "6", "0">>), age_group |-> "51-65"]
InitTables == {<<>>, <<OldRow>>}

NoPrev == [valid |-> FALSE, rows |-> <<>>, ret |-> "none", chunksize |-> 0]

(***************************************************************************)
(* calculate_age_group                                                     *)
(***************************************************************************)
DigitChars == <<"0", "1", "2", "3", "4", "5", "6", "7", "8", "9">>
DigitVal(c) == (CHOOSE n \in 1..10 : DigitChars[n] = c) - 1

\* str.isdigit(): non-empty and every character is a digit character.
isdigit(s) == Len(s) > 0 /\ \A i \in 1..Len(s) : s[i] \in AsciiDigits \cup SuperscriptDigits

\* int(s) succeeds on a string that passed isdigit() iff all are decimal digits.
int_raises(s) == \E i \in 1..Len(s) : s[i] \notin AsciiDigits

RECURSIVE int(_)
int(s) == IF Len(s) = 0 THEN 0
          ELSE 10 * int(SubSeq(s, 1, Len(s) - 1)) + DigitVal(s[Len(s)])

AgeBucketBoundary50(age) ==
    IF 18 <= age /\ age <= 25 THEN "18-25"
    ELSE IF 26 <= age /\ age <= 35 THEN "26-35"
    ELSE IF 36 <= age /\ age < 50 THEN "36-50"
    ELSE IF 50 <= age /\ age <= 65 THEN "51-65"
    ELSE IF age > 65 THEN "65+"
    ELSE "Unknown"

AgeBucketFrom17(age) ==
    IF 17 <= age /\ age <= 25 THEN "18-25"
    ELSE IF 26 <= age /\ age <= 35 THEN "26-35"
    ELSE IF 36 <= age /\ age <= 50 THEN "36-50"
    ELSE IF 51 <= age /\ age <= 65 THEN "51-65"
    ELSE IF age > 65 THEN "65+"
    ELSE "Unknown"

\* The if/elif chain on age.
AgeBucket(age) ==
    IF 18 <= age /\ age <= 25 THEN "18-25"
    ELSE IF 26 <= age /\ age <= 35 THEN "26-35"
    ELSE IF 36 <= age /\ age <= 50 THEN "36-50"
    ELSE IF 51 <= age /\ age <= 65 THEN "51-65"
    ELSE IF age > 65 THEN "65+"
    ELSE "Unknown"

calculate_age_group(birth_year, current_year) ==
    IF birth_year.isna \/ ~isdigit(birth_year.s) THEN "Unknown"
    ELSE IF int_raises(birth_year.s) THEN "Unknown"
    ELSE AgeBucket(current_year - int(birth_year.s))

(***************************************************************************)
(* Manifest Store                                                          *)
(***************************************************************************)
load_manifest_raises_not_json(mf) == mf.exists /\ (~mf.readable \/ ~mf.parses)

\* load_manifest catches json.JSONDecodeError only: any other failure of
\* open() or of decoding the text reaches the caller.
load_manifest_raises(mf) == mf.exists /\ ~mf.readable

load_manifest(mf) ==
    IF ~mf.exists THEN <<>>
    ELSE IF ~mf.parses THEN <<>>
    ELSE mf.entries

\* How save_manifest can end: the list is written; mkdir or open() fails and
\* the file stays as it was; or open(.., "w") has emptied the file and
\* json.dump fails part-way, leaving text that is not JSON.
SaveOutcomes == {"written", "not_opened", "partial"}

save_manifest_merging(mf, manifest, outcome) ==
    CASE outcome = "written" ->
             ManifestOf(load_manifest(mf) \o <<manifest[Len(manifest)]>>)
      [] outcome = "not_opened" -> mf
      [] outcome = "partial" -> NotJson

\* The manifest file after save_manifest(manifest).
save_manifest(mf, manifest, outcome) ==
    CASE outcome = "written" -> ManifestOf(manifest)
      [] outcome = "not_opened" -> mf
      [] outcome = "partial" -> NotJson

\* except Exception: log; raise
save_manifest_raises(outcome) == outcome # "written"

\* add_entry: load, append the new entry, save. Gives the manifest file it
\* leaves and where it raised ("no", "load" or "save").
add_entry(mf, entry, outcome) ==
    IF load_manifest_raises(mf)
    THEN [file |-> mf, raised |-> "load"]
    ELSE [file |-> save_manifest(mf, Append(load_manifest(mf), entry), outcome),
          raised |-> IF save_manifest_raises(outcome) THEN "save" ELSE "no"]

get_latest_file_last(mf, file_type) ==
    LET manifest == load_manifest(mf)
        matching == SelectSeq(manifest, LAMBDA e : e.file_type = file_type)
    IN  IF Len(matching) = 0 THEN None ELSE matching[Len(matching)]

get_latest_file_last_of_ties(mf, file_type) ==
    LET manifest == load_manifest(mf)
        matching == SelectSeq(manifest, LAMBDA e : e.file_type = file_type)
    IN  IF Len(matching) = 0 THEN None
        ELSE LET i == CHOOSE i \in 1..Len(matching) :
                        /\ \A j \in 1..Len(matching) :
                               matching[j].downloaded_at <= matching[i].downloaded_at
                        /\ \A j \in (i + 1)..Len(matching) :
                               matching[j].downloaded_at < matching[i].downloaded_at
             IN  matching[i]

\* max(matching, key=downloaded_at): the first entry holding the maximum.
get_latest_file(mf, file_type) ==
    LET manifest == load_manifest(mf)
        matching == SelectSeq(manifest, LAMBDA e : e.file_type = file_type)
    IN  IF Len(matching) = 0 THEN None
        ELSE LET i == CHOOSE i \in 1..Len(matching) :
                        /\ \A j \in 1..Len(matching) :
                               matching[j].downloaded_at <= matching[i].downloaded_at
                        /\ \A j \in 1..(i - 1) :
                               matching[j].downloaded_at < matching[i].downloaded_at
             IN  matching[i]

\* file_type=None of get_all_files
NoFileType == "<None>"

\* `if file_type:` is false for None and for the empty string.
get_all_files(mf, file_type) ==
    LET manifest == load_manifest(mf)
    IN  IF file_type # NoFileType /\ file_type # ""
        THEN SelectSeq(manifest, LAMBDA e : e.file_type = file_type)
        ELSE manifest

file_exists(mf, filename) ==
    LET manifest == load_manifest(mf)
    IN  \E i \in 1..Len(manifest) : manifest[i].filename = filename

\* RAW_DATA_DIR / filename
FileAt(filename) == IF filename = DataFile THEN raw_file ELSE Missing


(***************************************************************************)
(* load_raw_voters: the pieces the steps below are built from              *)
(***************************************************************************)
\* sum(1 for _ in open(file_path)): the header line, when the file has one,
\* and every line after it.
LineCount(f) == IF f.header = "headerless" THEN Len(f.rows) ELSE 1 + Len(f.rows)

\* The rows pd.read_csv(on_bad_lines='skip') yields: malformed lines are
\* dropped without a trace; a file with a column the table does not have
\* gives rows the INSERT of to_sql cannot store.
\* read_csv is called without header=None or names=, so the first line of
\* the file is always taken as the header: in a file without a header line
\* the first data line goes into the column names and is no row.
ParsedRows(f) ==
    LET lines == IF f.header = "headerless" THEN Tail(f.rows) ELSE f.rows
        kept == SelectSeq(lines, LAMBDA r : ~r.malformed)
    IN  [i \in 1..Len(kept) |->
            [kept[i] EXCEPT !.fits = kept[i].fits /\ f.header # "extra_column"]]

\* chunk['birth_year'] is a KeyError unless the header line names the column.
HasBirthYearColumn(f) == f.header \notin {"no_birth_year", "headerless"}

\* A logger call that carries a count or is a warning.
LogLine(level, msg, n) == [level |-> level, msg |-> msg, n |-> n]

ProgressEveryChunks == 10
ProgressEveryRows == 100000

\* if chunk_counter % 10 == 0 or rows_loaded % 100000 < chunksize:
ProgressLogged(counter, loaded, size) ==
    counter % ProgressEveryChunks = 0 \/ loaded % ProgressEveryRows < size

ExitStatusAlwaysZero(success) == 0

\* main(): if not success: exit(1); falling off the end of the script is 0.
ExitStatus(success) == IF success = "True" THEN 0 ELSE 1

TruncateConditionAboveOne(existing) == existing > 1

TruncateConditionAlways(existing) == existing >= 0

\* if existing_rows > 0:
TruncateCondition(existing) == existing > 0

SourceNotFoundReturnTrue == "True"

\* the two early `return False` of the source lookup
SourceNotFoundReturn == "False"

ReturnAfterNotifyChecked(outcome) == IF outcome = "sent" THEN "True" ELSE "False"

\* try: send_update_email() except Exception: log; then return True
ReturnAfterNotify(outcome) == "True"

\* What send_update_email can do: send; return False because disabled, without
\* credentials, or after catching its own failure; or raise to the caller.
NotifyOutcomes == {"sent", "disabled", "no_credentials", "failed", "raised"}

\* SNAPSHOT_FILE: absent, the JSON of the statistics last saved, or what an
\* interrupted json.dump left; its directory can or cannot be written.
NoSnapshot(w) == [writable |-> w, content |-> "absent", total_voters |-> 0]

\* get_current_statistics(): counts over raw.raw_voters as it is at the call
get_current_statistics(tbl) == [total_voters |-> Len(tbl)]

\* load_previous_snapshot(): None when the file is absent or cannot be parsed
load_previous_snapshot(sf) ==
    IF sf.content = "json"
    THEN [found |-> TRUE, total_voters |-> sf.total_voters]
    ELSE [found |-> FALSE, total_voters |-> 0]

SnapshotOutcomes == {"written", "not_opened", "partial"}

\* save_snapshot(stats): mkdir, open(SNAPSHOT_FILE, 'w'), json.dump; every
\* exception is logged and swallowed, so a failed save leaves the file as it
\* was (not opened) or truncated and incomplete (dump interrupted).
save_snapshot(sf, stats, outcome) ==
    IF ~sf.writable \/ outcome = "not_opened" THEN sf
    ELSE IF outcome = "partial"
         THEN [sf EXCEPT !.content = "corrupt", !.total_voters = 0]
         ELSE [sf EXCEPT !.content = "json", !.total_voters = stats.total_voters]

send_update_email_saves_first(sf, tbl, outcome, save_outcome) ==
    IF outcome \in {"sent", "failed"}
    THEN save_snapshot(sf, get_current_statistics(tbl), save_outcome)
    ELSE sf

\* send_update_email(): the snapshot file it leaves. save_snapshot is reached
\* only after send_email returned; the early returns and the except branch
\* do not touch the file.
send_update_email(sf, tbl, outcome, save_outcome) ==
    IF outcome = "sent"
    THEN save_snapshot(sf, get_current_statistics(tbl), save_outcome)
    ELSE sf

\* send_update_email() returns True only after the email was sent.
send_update_email_returns(outcome) == outcome = "sent"

\* The rows of a chunk as the table stores them.
Stored(c) == [i \in 1..Len(c) |-> [by |-> c[i].by, age_group |-> c[i].age_group]]

ToSqlNoTransaction(tbl, c) ==
    LET bad == {i \in 1..Len(c) : ~c[i].fits}
        n == IF bad = {} THEN Len(c)
             ELSE (CHOOSE i \in bad : \A j \in bad : i <= j) - 1
    IN  tbl \o SubSeq(Stored(c), 1, n)

ToSqlPrepend(tbl, c) ==
    IF \E i \in 1..Len(c) : ~c[i].fits THEN tbl ELSE Stored(c) \o tbl

\* chunk.to_sql(if_exists='append'): one transaction per chunk, so a chunk
\* holding a row the database rejects leaves the table as it was.
ToSql(tbl, c) ==
    IF \E i \in 1..Len(c) : ~c[i].fits THEN tbl ELSE tbl \o Stored(c)

\* The chunk the reader yields at position p: at most size rows, in file order.
NextChunk(rows, p, size) ==
    LET last == IF p + size < Len(rows) THEN p + size ELSE Len(rows)
    IN  [i \in 1..(last - p) |->
            [by |-> rows[p + i].by, fits |-> rows[p + i].fits, age_group |-> ""]]

RaiseSwallowedInLoop(step, env_fault) ==
    /\ pc' = IF step = "insert" THEN "read" ELSE "done"
    /\ ret' = IF step = "insert" THEN ret ELSE "False"
    /\ failed' = step
    /\ undisturbed' = (undisturbed /\ ~env_fault)

RaiseEscapes(step, env_fault) ==
    /\ pc' = "done"
    /\ ret' = "raised"
    /\ failed' = step
    /\ undisturbed' = (undisturbed /\ ~env_fault)

\* An exception inside the try block: except Exception -> log, return False.
Raise(step, env_fault) ==
    /\ pc' = "done"
    /\ ret' = "False"
    /\ failed' = step
    /\ undisturbed' = (undisturbed /\ ~env_fault)

(***************************************************************************)
(* Initial states                                                          *)
(***************************************************************************)
IdleLocals ==
    /\ latest_entry = None
    /\ total_rows = 0
    /\ existing_rows = 0
    /\ rows_loaded = 0
    /\ chunk_counter = 0
    /\ pos = 0
    /\ chunk = <<>>

IdleHistory ==
    /\ ret = "none"
    /\ ops = <<>>
    /\ failed = "none"
    /\ table0 = <<>>
    /\ notified = "none"
    /\ undisturbed = TRUE
    /\ log = <<>>

\* The Manifest Store variables of SpecManifest and SpecRace, not in use.
NoCall == [op |-> "none", filename |-> "", file_type |-> "", entry |-> None,
           before |-> Absent, raised |-> "no", found |-> <<>>, flag |-> FALSE]
Writers == {"w1", "w2"}
IdleWriter == [pc |-> "idle", manifest |-> <<>>, entry |-> None, saw |-> {}]
IdleManifestStore ==
    /\ call = NoCall
    /\ appended = {}
    /\ writers = [w \in Writers |-> IdleWriter]

\* run_full_pipeline not in use.
NoPipeline ==
    /\ pipe_pc = "none"
    /\ pipe_steps = <<>>
    /\ pipe_ret = "none"

Init ==
    /\ manifest_file \in InitManifests
    /\ raw_file \in FileContents \cup {Missing}
    /\ table \in InitTables
    /\ row_gen = [i \in 1..Len(table) |-> "prior"]
    /\ year = 2025
    /\ chunksize \in ChunkSizes
    /\ pc = "idle"
    /\ IdleLocals
    /\ IdleHistory
    /\ prev = NoPrev
    /\ exit_code = -1
    /\ birth_year_arg = NaN
    /\ age_group_out = "none"
    /\ IdleManifestStore
    /\ NoPipeline
    /\ snapshot_file = NoSnapshot(FALSE)

(***************************************************************************)
(* Environment: the extracted file is replaced or removed between runs,    *)
(* the calendar year advances at any time.                                 *)
(***************************************************************************)
WriteFile ==
    /\ pc = "idle"
    /\ \E f \in FileContents : f # raw_file /\ raw_file' = f
    /\ prev' = NoPrev
    /\ UNCHANGED <<manifest_file, table, row_gen, year, chunksize, pc, run_locals,
                   ret, ops, failed, table0, notified, undisturbed, log, age_vars, pipeline_vars, snapshot_file, manifest_vars, exit_code>>

\* SpecFiles: the file put on disk follows a drifted layout or holds
\* malformed lines.
WriteVariantFile ==
    /\ pc = "idle"
    /\ \E f \in VariantFiles : f # raw_file /\ raw_file' = f
    /\ prev' = NoPrev
    /\ UNCHANGED <<manifest_file, table, row_gen, year, chunksize, pc, run_locals,
                   ret, ops, failed, table0, notified, undisturbed, log, age_vars, pipeline_vars, snapshot_file, manifest_vars, exit_code>>

RemoveFile ==
    /\ pc = "idle"
    /\ raw_file.present
    /\ raw_file' = Missing
    /\ prev' = NoPrev
    /\ UNCHANGED <<manifest_file, table, row_gen, year, chunksize, pc, run_locals,
                   ret, ops, failed, table0, notified, undisturbed, log, age_vars, pipeline_vars, snapshot_file, manifest_vars, exit_code>>

NextYear ==
    /\ year + 1 \in Years
    /\ year' = year + 1
    /\ prev' = NoPrev
    /\ undisturbed' = IF pc = "idle" THEN undisturbed ELSE FALSE
    /\ UNCHANGED <<manifest_file, raw_file, table, row_gen, chunksize, pc, run_locals,
                   ret, ops, failed, table0, notified, log, age_vars, pipeline_vars, snapshot_file, manifest_vars, exit_code>>

(***************************************************************************)
(* load_raw_voters, step by step                                           *)
(***************************************************************************)
\* the call: def load_raw_voters(chunksize), the batch size being the caller's
LoadStart ==
    /\ pc = "idle"
    /\ pc' = "locate"
    /\ table0' = table
    /\ chunksize' \in ChunkSizes
    /\ UNCHANGED <<manifest_file, raw_file, table, row_gen, year, run_locals,
                   ret, ops, failed, notified, undisturbed, prev, log, age_vars, pipeline_vars, snapshot_file, manifest_vars, exit_code>>

\* latest_entry = get_latest_file("registration_data"); if not latest_entry: return False
Locate ==
    /\ pc = "locate"
    /\ \/ /\ Raise("manifest", TRUE)
          /\ UNCHANGED latest_entry
       \/ /\ latest_entry' = get_latest_file(manifest_file, "registration_data")
          /\ IF latest_entry' = None
             THEN pc' = "done" /\ ret' = SourceNotFoundReturn
             ELSE pc' = "exists" /\ ret' = ret
          /\ UNCHANGED <<failed, undisturbed>>
    /\ UNCHANGED <<manifest_file, raw_file, table, row_gen, year, chunksize,
                   total_rows, existing_rows, rows_loaded, chunk_counter, pos, chunk,
                   ops, table0, notified, prev, log, age_vars, pipeline_vars, snapshot_file, manifest_vars, exit_code>>

\* if not file_path.exists(): return False
CheckExists ==
    /\ pc = "exists"
    /\ IF FileAt(latest_entry.filename).present
       THEN pc' = "count" /\ ret' = ret
       ELSE pc' = "done" /\ ret' = SourceNotFoundReturn
    /\ UNCHANGED <<manifest_file, raw_file, table, row_gen, year, chunksize, run_locals,
                   ops, failed, table0, notified, undisturbed, prev, log, age_vars, pipeline_vars, snapshot_file, manifest_vars, exit_code>>

\* total_rows = sum(1 for _ in open(file_path)) - 1; logged
CountRows ==
    /\ pc = "count"
    /\ \/ /\ Raise("count", TRUE)
          /\ UNCHANGED <<total_rows, log>>
       \/ /\ FileAt(latest_entry.filename).present
          /\ total_rows' = LineCount(FileAt(latest_entry.filename)) - 1
          /\ log' = Append(log, LogLine("info", "total_rows", total_rows'))
          /\ pc' = "existing"
          /\ UNCHANGED <<ret, failed, undisturbed>>
    /\ UNCHANGED <<manifest_file, raw_file, table, row_gen, year, chunksize,
                   latest_entry, existing_rows, rows_loaded, chunk_counter, pos, chunk,
                   ops, table0, notified, prev, age_vars, pipeline_vars, snapshot_file, manifest_vars, exit_code>>

\* engine = get_engine(); existing_rows = SELECT COUNT(*) FROM raw.raw_voters
\* if existing_rows > 0: warning "Table already has ... rows"
CheckExisting ==
    /\ pc = "existing"
    /\ ops' = Append(ops, "count")
    /\ \/ /\ Raise("existing", TRUE)
          /\ UNCHANGED <<existing_rows, log>>
       \/ /\ existing_rows' = Len(table)
          /\ pc' = IF TruncateCondition(existing_rows') THEN "truncate" ELSE "read"
          /\ log' = IF TruncateCondition(existing_rows')
                    THEN Append(log, LogLine("warning", "existing_rows", existing_rows'))
                    ELSE log
          /\ UNCHANGED <<ret, failed, undisturbed>>
    /\ UNCHANGED <<manifest_file, raw_file, table, row_gen, year, chunksize,
                   latest_entry, total_rows, rows_loaded, chunk_counter, pos, chunk,
                   table0, notified, prev, age_vars, pipeline_vars, snapshot_file, manifest_vars, exit_code>>

\* TRUNCATE TABLE raw.raw_voters; commit
Truncate ==
    /\ pc = "truncate"
    /\ ops' = Append(ops, "truncate")
    /\ \/ /\ Raise("truncate", TRUE)
          /\ UNCHANGED <<table, row_gen>>
       \/ /\ table' = <<>>
          /\ row_gen' = <<>>
          /\ pc' = "read"
          /\ UNCHANGED <<ret, failed, undisturbed>>
    /\ UNCHANGED <<manifest_file, raw_file, year, chunksize, run_locals,
                   table0, notified, prev, log, age_vars, pipeline_vars, snapshot_file, manifest_vars, exit_code>>

\* for chunk in pd.read_csv(..., chunksize=chunksize): chunk_counter += 1
\* A file without data rows yields one empty first chunk. After the last
\* chunk: "Successfully loaded {rows_loaded} voter records".
ReadChunk ==
    /\ pc = "read"
    /\ LET rows == ParsedRows(FileAt(latest_entry.filename)) IN
       \/ /\ Raise("read", TRUE)
          /\ ops' = Append(ops, "read")
          /\ UNCHANGED <<chunk, chunk_counter, pos, log>>
       \/ /\ pos >= Len(rows) /\ chunk_counter > 0
          /\ pc' = "notify"
          /\ log' = Append(log, LogLine("info", "loaded", rows_loaded))
          /\ UNCHANGED <<chunk, chunk_counter, pos, ops, ret, failed, undisturbed>>
       \/ /\ pos < Len(rows) \/ chunk_counter = 0
          /\ chunk' = NextChunk(rows, pos, chunksize)
          /\ pos' = pos + Len(chunk')
          /\ chunk_counter' = chunk_counter + 1
          /\ ops' = Append(ops, "read")
          /\ pc' = "age"
          /\ UNCHANGED <<ret, failed, undisturbed, log>>
    /\ UNCHANGED <<manifest_file, raw_file, table, row_gen, year, chunksize,
                   latest_entry, total_rows, existing_rows, rows_loaded,
                   table0, notified, prev, age_vars, pipeline_vars, snapshot_file, manifest_vars, exit_code>>

\* current_year = datetime.now().year
\* chunk['age_group'] = chunk['birth_year'].apply(calculate_age_group)
ComputeAgeGroup ==
    /\ pc = "age"
    /\ IF ~HasBirthYearColumn(FileAt(latest_entry.filename))
       THEN /\ Raise("age_group", FALSE)
            /\ UNCHANGED chunk
       ELSE /\ chunk' = [i \in 1..Len(chunk) |->
                           [chunk[i] EXCEPT !.age_group =
                               calculate_age_group(chunk[i].by, year)]]
            /\ pc' = "insert"
            /\ UNCHANGED <<ret, failed, undisturbed>>
    /\ UNCHANGED <<manifest_file, raw_file, table, row_gen, year, chunksize,
                   latest_entry, total_rows, existing_rows, rows_loaded, chunk_counter,
                   pos, ops, table0, notified, prev, log, age_vars, pipeline_vars, snapshot_file, manifest_vars, exit_code>>

\* chunk.to_sql('raw_voters', engine, schema='raw', if_exists='append')
InsertChunk ==
    /\ pc = "insert"
    /\ \/ /\ Raise("insert", TRUE)
          /\ ops' = Append(ops, "insert_failed")
          /\ UNCHANGED <<table, row_gen>>
       \/ /\ \E i \in 1..Len(chunk) : ~chunk[i].fits
          /\ Raise("insert", FALSE)
          /\ ops' = Append(ops, "insert_failed")
          /\ table' = ToSql(table, chunk)
          /\ row_gen' = row_gen \o [i \in 1..(Len(table') - Len(table)) |-> "this"]
       \/ /\ \A i \in 1..Len(chunk) : chunk[i].fits
          /\ ops' = Append(ops, "insert")
          /\ table' = ToSql(table, chunk)
          /\ row_gen' = row_gen \o [i \in 1..(Len(table') - Len(table)) |-> "this"]
          /\ pc' = "progress"
          /\ UNCHANGED <<ret, failed, undisturbed>>
    /\ UNCHANGED <<manifest_file, raw_file, year, chunksize, run_locals,
                   table0, notified, prev, log, age_vars, pipeline_vars, snapshot_file, manifest_vars, exit_code>>

\* rows_loaded += len(chunk); percent_complete = (rows_loaded / total_rows) * 100
\* and the progress line, when its condition holds
Progress ==
    /\ pc = "progress"
    /\ rows_loaded' = rows_loaded + Len(chunk)
    /\ IF total_rows = 0
       THEN Raise("progress", FALSE) /\ UNCHANGED log
       ELSE /\ pc' = "read"
            /\ log' = IF ProgressLogged(chunk_counter, rows_loaded', chunksize)
                      THEN Append(log, LogLine("info", "progress", rows_loaded'))
                      ELSE log
            /\ UNCHANGED <<ret, failed, undisturbed>>
    /\ UNCHANGED <<manifest_file, raw_file, table, row_gen, year, chunksize,
                   latest_entry, total_rows, existing_rows, chunk_counter, pos, chunk,
                   ops, table0, notified, prev, age_vars, pipeline_vars, snapshot_file, manifest_vars, exit_code>>

\* try: send_update_email() except Exception: warning; return True
Notify ==
    /\ pc = "notify"
    /\ \E outcome \in NotifyOutcomes, save_outcome \in SnapshotOutcomes :
          /\ notified' = outcome
          /\ snapshot_file' = send_update_email(snapshot_file, table, outcome, save_outcome)
          /\ ret' = ReturnAfterNotify(outcome)
          /\ log' = IF outcome = "raised"
                    THEN Append(log, LogLine("warning", "email_failed", 0))
                    ELSE log
    /\ ops' = Append(ops, "notify")
    /\ pc' = "done"
    /\ UNCHANGED <<manifest_file, raw_file, table, row_gen, year, chunksize, run_locals,
                   failed, table0, undisturbed, prev, age_vars, pipeline_vars,
                   manifest_vars, exit_code>>

\* main(): success = load_raw_voters(); if not success: exit(1)
MainExit ==
    /\ pc = "done"
    /\ pc' = "exited"
    /\ exit_code' = ExitStatus(ret)
    /\ UNCHANGED <<manifest_file, raw_file, table, row_gen, year, chunksize, run_locals,
                   ret, ops, failed, table0, notified, undisturbed, prev, log,
                   age_vars, pipeline_vars, snapshot_file, manifest_vars>>

\* The caller has the result (or the process of main() has ended); the next
\* call starts from fresh locals.
Return ==
    /\ pc \in {"done", "exited"}
    /\ pc' = "idle"
    /\ prev' = IF undisturbed
               THEN [valid |-> TRUE, rows |-> table, ret |-> ret, chunksize |-> chunksize]
               ELSE NoPrev
    /\ row_gen' = [i \in 1..Len(table) |-> "prior"]
    /\ latest_entry' = None
    /\ total_rows' = 0
    /\ existing_rows' = 0
    /\ rows_loaded' = 0
    /\ chunk_counter' = 0
    /\ pos' = 0
    /\ chunk' = <<>>
    /\ ret' = "none"
    /\ ops' = <<>>
    /\ failed' = "none"
    /\ table0' = <<>>
    /\ notified' = "none"
    /\ undisturbed' = TRUE
    /\ log' = <<>>
    /\ exit_code' = -1
    /\ UNCHANGED <<manifest_file, raw_file, table, year, chunksize, age_vars, pipeline_vars, snapshot_file, manifest_vars>>

Next ==
    \/ WriteFile
    \/ RemoveFile
    \/ NextYear
    \/ LoadStart
    \/ Locate
    \/ CheckExists
    \/ CountRows
    \/ CheckExisting
    \/ Truncate
    \/ ReadChunk
    \/ ComputeAgeGroup
    \/ InsertChunk
    \/ Progress
    \/ Notify
    \/ MainExit
    \/ Return

Spec == Init /\ [][Next]_vars


(***************************************************************************)
(* SpecAge: calculate_age_group applied to every bounded birth_year cell   *)
(* and reference year.                                                     *)
(***************************************************************************)
BirthInputs == {NaN, by1980, by1975} \cup {Str(s) : s \in SeqsUpTo(Chars, MaxLen)}
RefYears == {50, 100, 2025, 2026}

InitAge ==
    /\ manifest_file = Absent
    /\ raw_file = Missing
    /\ table = <<>>
    /\ row_gen = <<>>
    /\ year \in RefYears
    /\ chunksize = 1
    /\ pc = "age_spec"
    /\ IdleLocals
    /\ IdleHistory
    /\ prev = NoPrev
    /\ exit_code = -1
    /\ birth_year_arg \in BirthInputs
    /\ age_group_out = "none"
    /\ IdleManifestStore
    /\ NoPipeline
    /\ snapshot_file = NoSnapshot(FALSE)

ApplyAgeGroup ==
    /\ pc = "age_spec"
    /\ age_group_out = "none"
    /\ age_group_out' = calculate_age_group(birth_year_arg, year)
    /\ UNCHANGED <<manifest_file, raw_file, table, row_gen, year, chunksize, pc, run_locals,
                   ret, ops, failed, table0, notified, undisturbed, prev, birth_year_arg,
                   log, exit_code, manifest_vars, pipeline_vars, snapshot_file>>

NextAge == ApplyAgeGroup

SpecAge == InitAge /\ [][NextAge]_vars

(***************************************************************************)
(* SpecFiles: the loader fed files with drifted layouts and malformed      *)
(* lines.                                                                  *)
(***************************************************************************)
InitFiles ==
    /\ manifest_file \in InitManifests
    /\ raw_file \in VariantFiles \cup {Missing}
    /\ table \in InitTables
    /\ row_gen = [i \in 1..Len(table) |-> "prior"]
    /\ year = 2025
    /\ chunksize \in ChunkSizes
    /\ pc = "idle"
    /\ IdleLocals
    /\ IdleHistory
    /\ prev = NoPrev
    /\ exit_code = -1
    /\ birth_year_arg = NaN
    /\ age_group_out = "none"
    /\ IdleManifestStore
    /\ NoPipeline
    /\ snapshot_file = NoSnapshot(FALSE)

NextFiles ==
    \/ WriteVariantFile
    \/ RemoveFile
    \/ NextYear
    \/ LoadStart
    \/ Locate
    \/ CheckExists
    \/ CountRows
    \/ CheckExisting
    \/ Truncate
    \/ ReadChunk
    \/ ComputeAgeGroup
    \/ InsertChunk
    \/ Progress
    \/ Notify
    \/ MainExit
    \/ Return

SpecFiles == InitFiles /\ [][NextFiles]_vars

(***************************************************************************)
(* SpecManifest: the Manifest Store called by one caller at a time.        *)
(* downloaded_at is a fixed-width UTC string; its order is the order of    *)
(* the instants 1, 2 it stands for, and the clock may be set back between  *)
(* calls.                                                                  *)
(***************************************************************************)
FileNames == {"results_pct.zip", "results_pct.txt"}
FileTypes == {"results_zip", "results_data", ""}
Times == {1, 2}

\* The loader part of the state, not in use.
NoLoader ==
    /\ raw_file = Missing
    /\ table = <<>>
    /\ row_gen = <<>>
    /\ year = 2025
    /\ chunksize = 1
    /\ IdleLocals
    /\ IdleHistory
    /\ prev = NoPrev
    /\ exit_code = -1
    /\ birth_year_arg = NaN
    /\ age_group_out = "none"

InitManifest ==
    /\ manifest_file \in {Absent, NotJson, Unreadable}
    /\ pc = "manifest_spec"
    /\ NoLoader
    /\ IdleManifestStore
    /\ NoPipeline
    /\ snapshot_file = NoSnapshot(FALSE)

\* add_entry(filename, url, file_type)
AddEntry ==
    /\ pc = "manifest_spec"
    /\ Len(load_manifest(manifest_file)) < MaxEntries
    /\ \E f \in FileNames, t \in FileTypes, ts \in Times, outcome \in SaveOutcomes :
          LET r == add_entry(manifest_file, Entry(f, t, ts), outcome)
          IN  /\ manifest_file' = r.file
              /\ call' = [NoCall EXCEPT !.op = "add_entry", !.filename = f,
                                        !.file_type = t, !.entry = Entry(f, t, ts),
                                        !.before = manifest_file, !.raised = r.raised]
              /\ appended' = IF r.raised = "no" THEN appended \cup {f} ELSE appended
    /\ UNCHANGED <<raw_file, table, row_gen, year, chunksize, pc, run_locals,
                   ret, ops, failed, table0, notified, undisturbed, prev, log,
                   exit_code, age_vars, pipeline_vars, snapshot_file, writers>>

\* get_latest_file(file_type)
GetLatestFile ==
    /\ pc = "manifest_spec"
    /\ \E t \in FileTypes :
          call' = IF load_manifest_raises(manifest_file)
                  THEN [NoCall EXCEPT !.op = "get_latest_file", !.file_type = t,
                                      !.raised = "load"]
                  ELSE [NoCall EXCEPT !.op = "get_latest_file", !.file_type = t,
                                      !.entry = get_latest_file(manifest_file, t)]
    /\ UNCHANGED <<manifest_file, raw_file, table, row_gen, year, chunksize, pc,
                   run_locals, ret, ops, failed, table0, notified, undisturbed, prev,
                   log, exit_code, age_vars, pipeline_vars, snapshot_file, appended, writers>>

\* get_all_files(file_type=None)
GetAllFiles ==
    /\ pc = "manifest_spec"
    /\ \E t \in FileTypes \cup {NoFileType} :
          call' = IF load_manifest_raises(manifest_file)
                  THEN [NoCall EXCEPT !.op = "get_all_files", !.file_type = t,
                                      !.raised = "load"]
                  ELSE [NoCall EXCEPT !.op = "get_all_files", !.file_type = t,
                                      !.found = get_all_files(manifest_file, t)]
    /\ UNCHANGED <<manifest_file, raw_file, table, row_gen, year, chunksize, pc,
                   run_locals, ret, ops, failed, table0, notified, undisturbed, prev,
                   log, exit_code, age_vars, pipeline_vars, snapshot_file, appended, writers>>

\* file_exists(filename)
FileExists ==
    /\ pc = "manifest_spec"
    /\ \E g \in FileNames \cup {DataFile} :
          call' = IF load_manifest_raises(manifest_file)
                  THEN [NoCall EXCEPT !.op = "file_exists", !.filename = g,
                                      !.raised = "load"]
                  ELSE [NoCall EXCEPT !.op = "file_exists", !.filename = g,
                                      !.flag = file_exists(manifest_file, g)]
    /\ UNCHANGED <<manifest_file, raw_file, table, row_gen, year, chunksize, pc,
                   run_locals, ret, ops, failed, table0, notified, undisturbed, prev,
                   log, exit_code, age_vars, pipeline_vars, snapshot_file, appended, writers>>

NextManifest ==
    \/ AddEntry
    \/ GetLatestFile
    \/ GetAllFiles
    \/ FileExists

SpecManifest == InitManifest /\ [][NextManifest]_vars

(***************************************************************************)
(* SpecRace: two add_entry calls running at the same time, each a load     *)
(* step (load_manifest, build the entry, append to the local list) and a   *)
(* save step (save_manifest of the local list).                            *)
(***************************************************************************)
OldEntry == Entry("ncvoter_Statewide.zip", "registration_zip", 1)

InitRace ==
    /\ manifest_file \in {Absent, NotJson, Unreadable, ManifestOf(<<OldEntry>>)}
    /\ pc = "race_spec"
    /\ NoLoader
    /\ IdleManifestStore
    /\ NoPipeline
    /\ snapshot_file = NoSnapshot(FALSE)

\* manifest = load_manifest(); entry = {...}; manifest.append(entry)
AddEntryLoad(w) ==
    /\ pc = "race_spec"
    /\ writers[w].pc = "idle"
    /\ \E f \in FileNames, t \in FileTypes, ts \in Times :
          writers' = [writers EXCEPT ![w] =
              IF load_manifest_raises(manifest_file)
              THEN [IdleWriter EXCEPT !.pc = "raised", !.entry = Entry(f, t, ts)]
              ELSE [pc |-> "loaded",
                    manifest |-> Append(load_manifest(manifest_file), Entry(f, t, ts)),
                    entry |-> Entry(f, t, ts),
                    saw |-> {v \in Writers : writers[v].pc = "saved"}]]
    /\ UNCHANGED <<manifest_file, raw_file, table, row_gen, year, chunksize, pc,
                   run_locals, ret, ops, failed, table0, notified, undisturbed, prev,
                   log, exit_code, age_vars, pipeline_vars, snapshot_file, call, appended>>

\* save_manifest(manifest)
AddEntrySave(w) ==
    /\ pc = "race_spec"
    /\ writers[w].pc = "loaded"
    /\ \E outcome \in SaveOutcomes :
          /\ manifest_file' = save_manifest(manifest_file, writers[w].manifest, outcome)
          /\ writers' = [writers EXCEPT ![w].pc =
                            IF save_manifest_raises(outcome) THEN "raised" ELSE "saved"]
    /\ UNCHANGED <<raw_file, table, row_gen, year, chunksize, pc, run_locals,
                   ret, ops, failed, table0, notified, undisturbed, prev, log,
                   exit_code, age_vars, pipeline_vars, snapshot_file, call, appended>>

NextRace == \E w \in Writers : AddEntryLoad(w) \/ AddEntrySave(w)

SpecRace == InitRace /\ [][NextRace]_vars

(***************************************************************************)
(* Properties                                                              *)
(***************************************************************************)
\* What one load of file rows in year y stores, row by row.
LoadedRows(rows, y) ==
    [i \in 1..Len(rows) |-> [by |-> rows[i].by,
                             age_group |-> calculate_age_group(rows[i].by, y)]]

CurrentFile == FileAt(get_latest_file(manifest_file, "registration_data").filename)

\* C1: a run that ends with the same file, year and chunksize as the previous
\* run, neither disturbed by an environment fault, leaves the table with the
\* rows (count and content) the previous run left and returns the same; when
\* it succeeds the table is exactly what one load of the current file stores.
C1_IdempotentRefresh ==
    (pc = "done" /\ undisturbed) =>
        /\ (prev.valid /\ prev.chunksize = chunksize) =>
              (table = prev.rows /\ ret = prev.ret)
        /\ ret = "True" => table = LoadedRows(ParsedRows(CurrentFile), year)

C1_Witness ==
    /\ pc = "done" /\ undisturbed /\ prev.valid /\ prev.chunksize = chunksize
    /\ ret = "True" /\ Len(table) = 2 /\ table0 = table

\* C2: the call never raises; a run in which any step raised returns False;
\* a run returns True only after every chunk of the file was inserted.
C2_NeverRaises ==
    /\ ret \in {"none", "True", "False"}
    /\ (pc = "done" /\ failed # "none") => ret = "False"
    /\ ret = "True" =>
          /\ pos = Len(ParsedRows(CurrentFile))
          /\ Len(SelectSeq(ops, LAMBDA o : o = "insert")) = chunk_counter
          /\ Len(SelectSeq(ops, LAMBDA o : o = "insert_failed")) = 0
          /\ Len(table) = Len(ParsedRows(CurrentFile))

C2_Witness == pc = "done" /\ failed = "age_group" /\ ret = "False" /\ chunk_counter = 1

\* C3: the step that invokes send_update_email ends the run with True and
\* leaves the table as the load left it, whatever the notifier did.
C3_NotifyContained ==
    [][(pc = "notify" /\ pc' # "notify") =>
          (pc' = "done" /\ ret' = "True" /\ table' = table /\ row_gen' = row_gen)]_vars

C3_Witness ==
    pc = "done" /\ notified = "raised" /\ ret = "True" /\ Len(table) > 0

\* C4: a failed insert is the last read or database statement of its run:
\* the run has returned False, no later chunk is read or inserted and the
\* failed chunk is not inserted again.
C4_FailFast ==
    \A i \in 1..Len(ops) :
        ops[i] = "insert_failed" =>
            (i = Len(ops) /\ pc \in {"done", "exited"} /\ ret = "False")

C4_Witness ==
    /\ pc = "done" /\ Len(ops) > 0 /\ ops[Len(ops)] = "insert_failed"
    /\ chunk_counter = 1 /\ pos < Len(ParsedRows(CurrentFile))

\* C5: a run that fails in the streaming loop at chunk k leaves exactly the
\* rows of chunks 1..k-1 of the current file, in file order, all written by
\* this run; nothing that was in the table before the run is left.
C5_PartialRun ==
    (pc = "done" /\ failed \in {"read", "age_group", "insert", "progress"}) =>
        LET rows == ParsedRows(CurrentFile)
            k == IF failed = "read" THEN chunk_counter + 1 ELSE chunk_counter
            full == (k - 1) * chunksize
            n == IF full < Len(rows) THEN full ELSE Len(rows)
        IN  /\ Len(table) = n
            /\ \A i \in 1..Len(table) :
                  /\ table[i].by = rows[i].by
                  /\ \E y \in Years : table[i].age_group = calculate_age_group(rows[i].by, y)
                  /\ row_gen[i] = "this"

C5_Witness ==
    /\ pc = "done" /\ failed = "insert" /\ chunk_counter = 2
    /\ Len(table) = 1 /\ table0 # <<>> /\ table0 # table

\* C6: all rows of the table were written by the same run.
C6_SingleGeneration ==
    /\ Len(row_gen) = Len(table)
    /\ \A i, j \in 1..Len(row_gen) : row_gen[i] = row_gen[j]

C6_Witness ==
    /\ table0 # <<>> /\ Len(table) = 2 /\ row_gen[1] = "this"
    /\ \E i \in 1..Len(ops) : ops[i] = "truncate"

\* C7: TRUNCATE is issued at most once per run, as the statement right after
\* the row count and only when that count is positive; when the count is
\* positive nothing is read or inserted before it.
C7_TruncateOnce ==
    /\ Cardinality({i \in 1..Len(ops) : ops[i] = "truncate"}) <= 1
    /\ \A i \in 1..Len(ops) :
          ops[i] = "truncate" =>
              (i = 2 /\ ops[1] = "count" /\ existing_rows > 0
                     /\ existing_rows = Len(table0))
    /\ (Len(ops) >= 2 /\ Len(table0) > 0) => ops[2] = "truncate"
    /\ (pc \in {"read", "age", "insert", "progress", "notify"} /\ Len(table0) > 0) =>
          (Len(ops) >= 2 /\ ops[2] = "truncate")

C7_Witness ==
    /\ Len(ops) >= 6 /\ ops[2] = "truncate"
    /\ ops[4] = "insert" /\ ops[6] = "insert"

\* C8: a run that finds no registration_data entry, or whose latest entry
\* names a file that is not on disk, returns False having issued no database
\* statement, with the table as it was and the notifier not invoked.
C8_SourceNotFound ==
    (pc = "done" /\ (\/ get_latest_file(manifest_file, "registration_data") = None
                     \/ ~CurrentFile.present)) =>
        /\ ret = "False"
        /\ ops = <<>>
        /\ table = table0
        /\ notified = "none"

C8_Witness ==
    /\ pc = "done" /\ failed = "none" /\ latest_entry # None
    /\ ~CurrentFile.present /\ table # <<>>

C8_WitnessNoEntry ==
    /\ pc = "done" /\ failed = "none" /\ latest_entry = None
    /\ manifest_file.exists /\ table # <<>>

IsAsciiDigitString(b) ==
    ~b.isna /\ Len(b.s) > 0 /\ \A i \in 1..Len(b.s) : b.s[i] \in AsciiDigits

Buckets == {"18-25", "26-35", "36-50", "51-65", "65+"}

\* The ranges as the specification lists them: [65, oo) for 65+.
InListedRange(bucket, age) ==
    CASE bucket = "18-25" -> 18 <= age /\ age <= 25
      [] bucket = "26-35" -> 26 <= age /\ age <= 35
      [] bucket = "36-50" -> 36 <= age /\ age <= 50
      [] bucket = "51-65" -> 51 <= age /\ age <= 65
      [] bucket = "65+"   -> 65 <= age

\* The same ranges with 65+ starting above 65.
InDisjointRange(bucket, age) ==
    IF bucket = "65+" THEN 66 <= age ELSE InListedRange(bucket, age)

\* C9 as stated, for birth years written in ASCII decimal digits: Unknown iff
\* R-B < 18, otherwise the one bucket of [18,25],[26,35],[36,50],[51,65],
\* [65,oo) that contains R-B; Unknown for every other birth_year.
C9_AsStated ==
    age_group_out # "none" =>
        IF IsAsciiDigitString(birth_year_arg)
        THEN LET age == year - int(birth_year_arg.s)
             IN  /\ age_group_out = "Unknown" <=> age < 18
                 /\ age >= 18 =>
                       {b \in Buckets : InListedRange(b, age)} = {age_group_out}
        ELSE age_group_out = "Unknown"

\* C9 amended: for a birth_year written in ASCII decimal digits the result is
\* Unknown iff R-B < 18, otherwise the one bucket of
\* [18,25],[26,35],[36,50],[51,65],[66,oo) that contains R-B (age 65 is
\* 51-65); for NaN and every other string the result is Unknown.
C9_AgeGroupBuckets ==
    age_group_out # "none" =>
        IF IsAsciiDigitString(birth_year_arg)
        THEN LET age == year - int(birth_year_arg.s)
             IN  /\ age_group_out = "Unknown" <=> age < 18
                 /\ age >= 18 =>
                       {b \in Buckets : InDisjointRange(b, age)} = {age_group_out}
        ELSE age_group_out = "Unknown"

C9_Witness ==
    /\ age_group_out = "51-65"
    /\ IsAsciiDigitString(birth_year_arg)
    /\ year - int(birth_year_arg.s) = 65

SampleRows == <<Row(by1980, TRUE), Row(by1975, TRUE)>>

SampleLoaded ==
    /\ pc = "done" /\ ret = "True" /\ undisturbed
    /\ year = 2025 /\ table0 = <<>>
    /\ CurrentFile.rows = SampleRows

\* C10 as stated: the sample file loaded in 2025 into an empty table gives
\* age_group 36-50 for 1980 and 51-65 for 1975.
C10_AsStated ==
    SampleLoaded => table = <<[by |-> by1980, age_group |-> "36-50"],
                              [by |-> by1975, age_group |-> "51-65"]>>

\* C10 amended: it gives 36-50 for 1980 (age 45) and 36-50 for 1975 (age 50).
C10_SampleScenario ==
    SampleLoaded => table = <<[by |-> by1980, age_group |-> "36-50"],
                              [by |-> by1975, age_group |-> "36-50"]>>

C10_Witness == SampleLoaded /\ Len(table) = 2 /\ notified = "sent"

ValidLines(f) == SelectSeq(f.rows, LAMBDA r : ~r.malformed)
MalformedLines(f) == SelectSeq(f.rows, LAMBDA r : r.malformed)

\* C11 as stated: a successful load of a file with N valid and K malformed
\* lines leaves exactly N rows in the table, and the run reports a
\* skipped-row count equal to K.
C11_AsStated ==
    (pc = "done" /\ ret = "True") =>
        /\ Len(table) = Len(ValidLines(CurrentFile))
        /\ \E i \in 1..Len(log) :
              /\ log[i].msg = "skipped_rows"
              /\ log[i].n = Len(MalformedLines(CurrentFile))

\* C12 as stated: a run on a file (with data lines) that lacks an expected
\* column, birth_year included, completes successfully and logs a warning
\* about it; a run on a file with a column the table does not have is not
\* aborted.
C12_AsStated ==
    (/\ pc = "done" /\ undisturbed
     /\ CurrentFile.present /\ Len(CurrentFile.rows) > 0
     /\ \A i \in 1..Len(CurrentFile.rows) : CurrentFile.rows[i].fits) =>
        /\ CurrentFile.header \in {"no_birth_year", "no_dist_2"} =>
              /\ ret = "True"
              /\ \E i \in 1..Len(log) :
                    /\ log[i].level = "warning"
                    /\ log[i].msg \notin {"existing_rows", "email_failed"}
        /\ CurrentFile.header = "extra_column" => ret = "True"

\* C17: after a successful load the birth years of the table's rows are, in
\* order, those of the lines of the source file that are not malformed:
\* batches are appended in reading order and keep file order inside.
C17_RowOrder ==
    ret = "True" =>
        [i \in 1..Len(table) |-> table[i].by]
            = [i \in 1..Len(ValidLines(CurrentFile)) |-> ValidLines(CurrentFile)[i].by]

C17_Witness ==
    /\ pc = "done" /\ ret = "True" /\ chunk_counter = 2
    /\ Len(table) = 2 /\ table[1].by = by1980 /\ table[2].by = by1975

C17_WitnessSkip ==
    /\ pc = "done" /\ ret = "True"
    /\ CurrentFile.rows = <<BadLine, Row(by1975, TRUE)>>
    /\ Len(table) = 1

NotifyCalls == {i \in 1..Len(ops) : ops[i] = "notify"}

\* C18: the notifier is invoked at most once in a run, as the run's last
\* step before returning, only when every row of the file was read and every
\* batch inserted without failure; a run that returns True invoked it exactly
\* once and a run that returns False never did.
C18_NotifyOnce ==
    /\ Cardinality(NotifyCalls) <= 1
    /\ (notified # "none") <=> (NotifyCalls # {})
    /\ \A i \in NotifyCalls :
          /\ i = Len(ops)
          /\ failed = "none"
          /\ pos = Len(ParsedRows(CurrentFile))
          /\ Len(table) = Len(ParsedRows(CurrentFile))
          /\ Len(SelectSeq(ops, LAMBDA o : o = "insert")) = chunk_counter
          /\ Len(SelectSeq(ops, LAMBDA o : o = "insert_failed")) = 0
    /\ ret = "True" => Cardinality(NotifyCalls) = 1
    /\ ret = "False" => NotifyCalls = {}

C18_Witness ==
    /\ pc = "done" /\ ret = "True" /\ notified = "sent"
    /\ chunk_counter = 2 /\ ops[Len(ops)] = "notify"
    /\ Len(SelectSeq(ops, LAMBDA o : o = "insert")) = 2

\* C20: the process running main() ends with a nonzero exit status when
\* load_raw_voters returned False and with 0 when it returned True.
C20_ExitStatus ==
    /\ pc # "exited" => exit_code = -1
    /\ pc = "exited" =>
          /\ ret \in {"True", "False"}
          /\ ret = "False" => exit_code \in 1..255
          /\ ret = "True" => exit_code = 0

C20_Witness ==
    pc = "exited" /\ ret = "False" /\ failed = "insert" /\ exit_code = 1

C20_WitnessSuccess ==
    pc = "exited" /\ ret = "True" /\ Len(table) = 2 /\ exit_code = 0

\* C13: get_latest_file(file_type) gives None when no entry of the manifest
\* has that type, and otherwise an entry of that type whose downloaded_at
\* no entry of that type exceeds, wherever it stands in the manifest.
C13_LatestFile ==
    (call.op = "get_latest_file" /\ call.raised = "no") =>
        LET manifest == load_manifest(manifest_file)
            of_type == {i \in 1..Len(manifest) : manifest[i].file_type = call.file_type}
        IN  IF of_type = {} THEN call.entry = None
            ELSE \E i \in of_type :
                    /\ call.entry = manifest[i]
                    /\ \A j \in of_type :
                          manifest[j].downloaded_at <= manifest[i].downloaded_at

C13_Witness ==
    /\ call.op = "get_latest_file" /\ call.raised = "no"
    /\ Len(load_manifest(manifest_file)) = 3
    /\ LET manifest == load_manifest(manifest_file)
       IN  /\ manifest[1].file_type = call.file_type /\ manifest[1].downloaded_at = 2
           /\ manifest[2].file_type = call.file_type /\ manifest[2].downloaded_at = 1
           /\ manifest[3].file_type # call.file_type /\ manifest[3].downloaded_at = 2
           /\ call.entry = manifest[1]

C13_WitnessNone ==
    /\ call.op = "get_latest_file" /\ call.raised = "no"
    /\ Len(load_manifest(manifest_file)) = 2 /\ call.entry = None

IsPrefix(s, t) == Len(s) <= Len(t) /\ SubSeq(t, 1, Len(s)) = s

\* C14 as stated: after an add_entry call every entry the manifest held
\* before the call is still there, unchanged and in the same order, and a
\* call that did not raise has added exactly its entry at the end.
C14_AsStated ==
    call.op = "add_entry" =>
        /\ IsPrefix(load_manifest(call.before), load_manifest(manifest_file))
        /\ call.raised = "no" =>
              load_manifest(manifest_file)
                  = Append(load_manifest(call.before), call.entry)

\* C15: of two add_entry calls with different entries that both saved, the
\* manifest holds exactly one of the two new entries when both loaded before
\* either saved, and both when one loaded after the other had saved.
C15_LostUpdate ==
    (/\ \A w \in Writers : writers[w].pc = "saved"
     /\ writers["w1"].entry # writers["w2"].entry) =>
        LET manifest == load_manifest(manifest_file)
            new == {writers[w].entry : w \in Writers}
            kept == {e \in new : \E i \in 1..Len(manifest) : manifest[i] = e}
        IN  IF \A w \in Writers : writers[w].saw = {}
            THEN Cardinality(kept) = 1
            ELSE kept = new

C15_Witness ==
    /\ \A w \in Writers : writers[w].pc = "saved" /\ writers[w].saw = {}
    /\ writers["w1"].entry # writers["w2"].entry
    /\ load_manifest(manifest_file) = <<OldEntry, writers["w1"].entry>>

C15_WitnessSequential ==
    /\ \A w \in Writers : writers[w].pc = "saved"
    /\ writers["w2"].saw = {"w1"}
    /\ load_manifest(manifest_file)
           = <<OldEntry, writers["w1"].entry, writers["w2"].entry>>

C16_WitnessSaveFails ==
    /\ call.op = "add_entry" /\ call.raised = "save"
    /\ Len(load_manifest(call.before)) = 2 /\ manifest_file = NotJson

StepRank(p) ==
    CASE p = "idle" -> 0
      [] p = "locate" -> 1
      [] p = "exists" -> 2
      [] p = "count" -> 3
      [] p = "existing" -> 4
      [] p = "truncate" -> 5
      [] p \in {"read", "age", "insert", "progress"} -> 6
      [] p = "notify" -> 7
      [] p = "done" -> 8
      [] p = "exited" -> 9

\* C21: the steps of a run occur in the order locate source, count rows,
\* check existing rows, truncate (entered only when the table is non-empty,
\* skipped only when it is empty), batch loop, notify, done; no step is
\* entered twice (only the batch loop repeats its own steps); a failure in a
\* step before notify ends the run with False at once, and after it no step
\* runs: the table, the operations issued and the result stay as they are.
C21_StepOrder ==
    [][ /\ pc' # pc =>
              \/ pc \in {"done", "exited"} /\ pc' = "idle"
              \/ pc' = "done" /\ StepRank(pc) < 8
              \/ pc = "done" /\ pc' = "exited"
              \/ StepRank(pc') = StepRank(pc) + 1 /\ StepRank(pc') <= 7
              \/ pc = "existing" /\ pc' = "read"
              \/ StepRank(pc) = 6 /\ StepRank(pc') = 6
        /\ (pc # "truncate" /\ pc' = "truncate") => Len(table) > 0
        /\ (pc = "existing" /\ pc' = "read") => Len(table) = 0
        /\ (failed = "none" /\ failed' # "none") =>
              /\ StepRank(pc) \in 1..6
              /\ pc' = "done" /\ ret' = "False" /\ notified' = "none"
        /\ (failed # "none" /\ pc' # "idle") =>
              /\ pc \in {"done", "exited"}
              /\ table' = table /\ ops' = ops /\ ret' = ret
              /\ notified' = notified /\ failed' = failed
      ]_vars

C21_Witness ==
    /\ pc = "done" /\ ret = "True" /\ failed = "none"
    /\ ops = <<"count", "truncate", "read", "insert", "read", "insert", "notify">>

C21_WitnessFailed ==
    /\ pc = "exited" /\ ret = "False" /\ failed = "insert"
    /\ chunk_counter = 2 /\ notified = "none"

\* C22: total_rows only feeds the progress line, so no run's result is decided
\* by it: the progress computation never fails a run, and an undisturbed run
\* on a header-only file (total_rows = 0) returns True with an empty table,
\* as it would with any other value of total_rows.
C22_AsStated ==
    /\ failed # "progress"
    /\ (pc = "done" /\ undisturbed /\ latest_entry # None
          /\ CurrentFile.present /\ CurrentFile.header = "ok"
          /\ CurrentFile.rows = <<>>) =>
          (ret = "True" /\ table = <<>>)

\* C23: two rows stored by one run that have the same birth_year have the
\* same age_group, whatever the calendar does while the run is in progress.
C23_AsStated ==
    \A i, j \in 1..Len(table) :
        (row_gen[i] = "this" /\ row_gen[j] = "this" /\ table[i].by = table[j].by)
            => table[i].age_group = table[j].age_group

\* C24: every progress line in the log belongs to a batch whose number is a
\* multiple of 10 or in which the loaded-row total passed a multiple of
\* 100000; no other batch leaves a progress line.
C24_AsStated ==
    LET n == Len(ParsedRows(FileAt(latest_entry.filename)))
        Loaded(k) == IF k * chunksize < n THEN k * chunksize ELSE n
        Milestone(k) ==
            \/ k % ProgressEveryChunks = 0
            \/ Loaded(k) \div ProgressEveryRows > Loaded(k - 1) \div ProgressEveryRows
    IN  \A i \in 1..Len(log) :
            log[i].msg = "progress" =>
                \E k \in 1..chunk_counter : Milestone(k) /\ log[i].n = Loaded(k)

\* C25: for one source file and one reference year, a successful load leaves
\* the same table (rows, order, age_group values) whatever the chunksize: a
\* successful run leaves exactly what the previous successful run on the same
\* file and year left, also when the two runs used different batch sizes.
C25_ChunksizeIndependence ==
    (pc = "done" /\ undisturbed /\ ret = "True" /\ prev.valid /\ prev.ret = "True")
        => table = prev.rows

C25_Witness ==
    /\ pc = "done" /\ undisturbed /\ ret = "True"
    /\ prev.valid /\ prev.ret = "True" /\ prev.chunksize # chunksize
    /\ chunk_counter = 2 /\ Len(table) = 2
    /\ table[1].age_group # table[2].age_group

(***************************************************************************)
(* SpecNotify: load runs with a snapshot file the notifier can write.      *)
(***************************************************************************)
InitNotify ==
    /\ manifest_file = ManifestOf(<<Entry(DataFile, "registration_data", 1)>>)
    /\ raw_file \in FileContents
    /\ table = <<>>
    /\ row_gen = <<>>
    /\ year = 2025
    /\ chunksize \in ChunkSizes
    /\ pc = "idle"
    /\ IdleLocals
    /\ IdleHistory
    /\ prev = NoPrev
    /\ exit_code = -1
    /\ birth_year_arg = NaN
    /\ age_group_out = "none"
    /\ IdleManifestStore
    /\ NoPipeline
    /\ snapshot_file = NoSnapshot(TRUE)

\* Load runs one after the other, the file replaced between them.
NextNotify ==
    \/ WriteFile
    \/ LoadStart
    \/ Locate
    \/ CheckExists
    \/ CountRows
    \/ CheckExisting
    \/ Truncate
    \/ ReadChunk
    \/ ComputeAgeGroup
    \/ InsertChunk
    \/ Progress
    \/ Notify
    \/ Return

SpecNotify == InitNotify /\ [][NextNotify]_vars

\* C26: the snapshot the notifier diffs against was saved before the run's
\* truncation and is never taken from a truncated or partly loaded table: the
\* snapshot file changes only in the notification step, which runs after
\* every row of the file was stored by this run without a failure; no step
\* that changes the table (truncation, batch insert) touches the file; and a
\* saved snapshot holds the statistics of that fully loaded table.
C26_BaselineBeforeTruncation ==
    [][ /\ snapshot_file' # snapshot_file =>
              /\ pc = "notify" /\ pc' = "done"
              /\ failed = "none"
              /\ Len(table) = Len(ParsedRows(FileAt(latest_entry.filename)))
              /\ \A i \in 1..Len(table) : row_gen[i] = "this"
              /\ snapshot_file'.content = "json" =>
                    snapshot_file'.total_voters = Len(table)
        /\ table' # table => snapshot_file' = snapshot_file
      ]_vars

C26_Witness ==
    /\ pc = "notify"
    /\ \E i \in 1..Len(ops) : ops[i] = "truncate"
    /\ load_previous_snapshot(snapshot_file).found
    /\ load_previous_snapshot(snapshot_file).total_voters = Len(table0)
    /\ Len(table0) # Len(table)

C26_WitnessAfterFailedRun ==
    /\ pc = "notify"
    /\ \E i \in 1..Len(ops) : ops[i] = "truncate"
    /\ load_previous_snapshot(snapshot_file).found
    /\ load_previous_snapshot(snapshot_file).total_voters = 2
    /\ Len(table0) = 1

\* C28: a send_update_email call that does not send the email (disabled, no
\* credentials, statistics or sending raised) returns False and leaves the
\* snapshot file as it was; the file changes only in a call that sent the
\* email, so the next diff is against the last load that was emailed.
C28_SnapshotOnlyWhenSent ==
    [][ /\ (pc = "notify" /\ pc' = "done" /\ notified' # "sent") =>
              /\ ~send_update_email_returns(notified')
              /\ snapshot_file' = snapshot_file
        /\ snapshot_file' # snapshot_file =>
              (notified' = "sent" /\ send_update_email_returns(notified'))
      ]_vars

C28_Witness ==
    /\ pc = "done" /\ ret = "True" /\ notified = "failed"
    /\ load_previous_snapshot(snapshot_file).found
    /\ load_previous_snapshot(snapshot_file).total_voters # Len(table)

C28_WitnessDisabled ==
    /\ pc = "done" /\ ret = "True" /\ notified = "disabled"
    /\ snapshot_file.content = "corrupt"

\* C27: an undisturbed load of a file without a header line, N valid data
\* lines, succeeds and stores N rows, the first data line among them.
C27_AsStated ==
    (pc = "done" /\ undisturbed /\ latest_entry # None
        /\ CurrentFile.present /\ CurrentFile.header = "headerless") =>
        /\ ret = "True"
        /\ table = LoadedRows(CurrentFile.rows, year)

(***************************************************************************)
(* SpecPipeline: run_full_pipeline, its third step being load_raw_voters   *)
(* as modelled above.                                                      *)
(***************************************************************************)
loader_vars == <<manifest_file, raw_file, table, row_gen, year, chunksize, pc,
                 run_locals, ret, ops, failed, table0, notified, undisturbed,
                 prev, log, exit_code>>

PipelineOrder == <<"test", "scrape", "load", "demographics", "trends", "maps", "server">>

Step(name, outcome) == [step |-> name, outcome |-> outcome]

AfterGateContinue(ok, next) == next

\* if not step(): log; return False
AfterGate(ok, next) == IF ok THEN next ELSE "returned"

\* What the scraper, whose code run_full_pipeline only calls, may leave
\* behind: any of these files and manifests, or what was there.
PipelineFiles ==
    {Missing, File("ok", <<Row(by1980, TRUE), Row(by1975, TRUE)>>),
     File("ok", <<Row(by1980, FALSE)>>)}
PipelineManifests == {Absent, ManifestOf(<<Entry(DataFile, "registration_data", 1)>>)}

InitPipeline ==
    /\ manifest_file \in PipelineManifests
    /\ raw_file = Missing
    /\ table \in InitTables
    /\ row_gen = [i \in 1..Len(table) |-> "prior"]
    /\ year = 2025
    /\ chunksize = 1
    /\ pc = "idle"
    /\ IdleLocals
    /\ IdleHistory
    /\ prev = NoPrev
    /\ exit_code = -1
    /\ birth_year_arg = NaN
    /\ age_group_out = "none"
    /\ IdleManifestStore
    /\ snapshot_file = NoSnapshot(FALSE)
    /\ pipe_pc = "test"
    /\ pipe_steps = <<>>
    /\ pipe_ret = "none"

\* [1/7] if not test_connection(): return False
\* test_connection catches SQLAlchemyError only; anything else propagates.
TestConnection ==
    /\ pipe_pc = "test"
    /\ \E outcome \in {"True", "False", "raised"} :
          /\ pipe_steps' = Append(pipe_steps, Step("test", outcome))
          /\ pipe_pc' = IF outcome = "raised" THEN "returned"
                        ELSE AfterGate(outcome = "True", "scrape")
          /\ pipe_ret' = IF outcome = "raised" THEN "raised"
                         ELSE IF pipe_pc' = "returned" THEN "False" ELSE pipe_ret
    /\ UNCHANGED <<loader_vars, age_vars, manifest_vars, snapshot_file>>

\* [2/7] if not scraper_reg.scrape_registration(): return False
ScrapeRegistration ==
    /\ pipe_pc = "scrape"
    /\ \E outcome \in {"True", "False", "raised"} :
          /\ pipe_steps' = Append(pipe_steps, Step("scrape", outcome))
          /\ pipe_pc' = IF outcome = "raised" THEN "returned"
                        ELSE AfterGate(outcome = "True", "load")
          /\ pipe_ret' = IF outcome = "raised" THEN "raised"
                         ELSE IF pipe_pc' = "returned" THEN "False" ELSE pipe_ret
    /\ raw_file' \in PipelineFiles \cup {raw_file}
    /\ manifest_file' \in PipelineManifests \cup {manifest_file}
    /\ UNCHANGED <<table, row_gen, year, chunksize, pc, run_locals, ret, ops, failed,
                   table0, notified, undisturbed, prev, log, exit_code,
                   age_vars, manifest_vars, snapshot_file>>

\* [3/7] the call load_raw_voters.load_raw_voters()
PipelineLoad ==
    /\ pipe_pc = "load"
    /\ LoadStart

\* [3/7] if not load_raw_voters.load_raw_voters(): return False
LoadReturned ==
    /\ pipe_pc = "load"
    /\ pc = "done"
    /\ pipe_steps' = Append(pipe_steps, Step("load", ret))
    /\ pipe_pc' = AfterGate(ret = "True", "demographics")
    /\ pipe_ret' = IF pipe_pc' = "returned" THEN "False" ELSE pipe_ret
    /\ UNCHANGED <<loader_vars, age_vars, manifest_vars, snapshot_file>>

\* try: step() except Exception: warning "(non-critical)"; the next step follows
Visualization(name, next) ==
    /\ pipe_pc = name
    /\ \E outcome \in {"ok", "raised"} :
          pipe_steps' = Append(pipe_steps, Step(name, outcome))
    /\ pipe_pc' = next
    /\ UNCHANGED <<pipe_ret, loader_vars, age_vars, manifest_vars, snapshot_file>>

\* [4/7] demographics.generate_all_demographics_charts()
GenerateDemographics == Visualization("demographics", "trends")

\* [5/7] trends.generate_all_trends()
GenerateTrends == Visualization("trends", "maps")

\* [6/7] create_all_maps()
CreateMaps == Visualization("maps", "server")

\* [7/7] app.run(...): KeyboardInterrupt or a normal end give return True, any
\* other exception return False.
WebServer ==
    /\ pipe_pc = "server"
    /\ \E outcome \in {"ended", "interrupted", "raised"} :
          /\ pipe_steps' = Append(pipe_steps, Step("server", outcome))
          /\ pipe_ret' = IF outcome = "raised" THEN "False" ELSE "True"
    /\ pipe_pc' = "returned"
    /\ UNCHANGED <<loader_vars, age_vars, manifest_vars, snapshot_file>>

NextPipeline ==
    \/ TestConnection
    \/ ScrapeRegistration
    \/ PipelineLoad
    \/ Locate
    \/ CheckExists
    \/ CountRows
    \/ CheckExisting
    \/ Truncate
    \/ ReadChunk
    \/ ComputeAgeGroup
    \/ InsertChunk
    \/ Progress
    \/ Notify
    \/ LoadReturned
    \/ GenerateDemographics
    \/ GenerateTrends
    \/ CreateMaps
    \/ WebServer

SpecPipeline == InitPipeline /\ [][NextPipeline]_vars

\* C29: the pipeline's steps complete in the order database test,
\* registration scrape, raw-voter load, demographics, trends, maps, web
\* server, each once; when one of the first three returns False the pipeline
\* returns False with that step as its last (the loader is never started
\* unless test and scrape returned True); an exception in a visualization
\* step changes nothing: the next step is still the one that follows, all
\* seven steps run, and the result depends on the web server step only.
C29_PipelineGating ==
    /\ Len(pipe_steps) <= 7
    /\ \A i \in 1..Len(pipe_steps) :
          /\ pipe_steps[i].step = PipelineOrder[i]
          /\ (i <= 3 /\ pipe_steps[i].outcome = "False") =>
                (Len(pipe_steps) = i /\ pipe_pc = "returned" /\ pipe_ret = "False")
          /\ (i < Len(pipe_steps) /\ i <= 3) => pipe_steps[i].outcome = "True"
    /\ pc # "idle" =>
          /\ Len(pipe_steps) >= 2
          /\ pipe_steps[1].outcome = "True" /\ pipe_steps[2].outcome = "True"
    /\ Len(pipe_steps) >= 3 => pc = "done" /\ pipe_steps[3].outcome = ret
    /\ pipe_pc # "returned" =>
          (pipe_pc = PipelineOrder[Len(pipe_steps) + 1] /\ pipe_ret = "none")
    /\ (pipe_pc = "returned" /\ Len(pipe_steps) < 7) =>
          pipe_steps[Len(pipe_steps)].outcome \in {"False", "raised"}
    /\ Len(pipe_steps) = 7 =>
          /\ pipe_pc = "returned"
          /\ pipe_ret = IF pipe_steps[7].outcome = "raised" THEN "False" ELSE "True"

C29_Witness ==
    /\ pipe_pc = "returned" /\ pipe_ret = "True" /\ Len(pipe_steps) = 7
    /\ \A i \in 4..6 : pipe_steps[i].outcome = "raised"
    /\ Len(table) = 2

C29_WitnessLoadFailed ==
    /\ pipe_pc = "returned" /\ pipe_ret = "False" /\ Len(pipe_steps) = 3
    /\ pipe_steps[3] = Step("load", "False") /\ failed = "insert"

\* C30: when several entries of the requested type share the greatest
\* downloaded_at, get_latest_file returns the one standing first in the
\* manifest, that is the one appended earliest, and not a later one.
C30_TieBreakEarliest ==
    (call.op = "get_latest_file" /\ call.raised = "no") =>
        LET manifest == load_manifest(manifest_file)
            of_type == {i \in 1..Len(manifest) : manifest[i].file_type = call.file_type}
            latest == {i \in of_type :
                          \A j \in of_type :
                              manifest[j].downloaded_at <= manifest[i].downloaded_at}
        IN  \A i \in latest :
                (\A j \in latest : i <= j) => call.entry = manifest[i]

C30_Witness ==
    /\ call.op = "get_latest_file" /\ call.raised = "no"
    /\ Len(load_manifest(manifest_file)) = 3
    /\ LET manifest == load_manifest(manifest_file)
       IN  /\ \A i \in 1..3 : manifest[i].file_type = call.file_type
           /\ manifest[1].downloaded_at = 1
           /\ manifest[2].downloaded_at = 2 /\ manifest[3].downloaded_at = 2
           /\ manifest[2].filename # manifest[3].filename
           /\ call.entry = manifest[2]

====
